---------------------------- MODULE Spec2Model ----------------------------
(***************************************************************************)
(* MultiAgentEnv of multiagent/environment.py: the composite action space  *)
(* built by the constructor, the action decoder _set_action, the episode   *)
(* clock of step/reset, and the observation / global-state assembly with   *)
(* its structure descriptor and translation map.                           *)
(*                                                                         *)
(* Python values are records [k, v]: k = "num" is a Python scalar (v holds *)
(* the one number), k = "iarr" / "farr" a 1-D numpy array of integer /     *)
(* float dtype (v holds the elements; floats are integer valued here).     *)
(* None is the empty tuple << >> and a set value x is <<x>>.  Indices are  *)
(* 1-based in the model and 0-based in the source.                         *)
(***************************************************************************)
EXTENDS Integers, Sequences, FiniteSets, TLC

VARIABLES
    discrete_action_space,    \* self.discrete_action_space
    discrete_action_input,    \* self.discrete_action_input
    force_discrete_action,    \* self.force_discrete_action
    time_limit,               \* self.time_limit
    agents,                   \* world.policy_agents: [movable, silent, accel]
    action_space,             \* self.action_space, one space per agent
    ctor_err,                 \* exception raised by __init__, or "none"
    time,                     \* self.time
    num_episodes,             \* self.num_episodes
    u,                        \* agent.action.u, per agent
    c,                        \* agent.action.c, per agent
    u_alias,                  \* agent.action.u is the caller's buffer object
    p_pos,                    \* agent.state.p_pos, per agent
    p_vel,                    \* agent.state.p_vel, per agent
    l_pos,                    \* landmark.state.p_pos, per landmark
    translate_observation,    \* self.translate_observation
    translate_state,          \* self.translate_state
    ret,                      \* what the last call returned or raised
    action_in,                \* the buffers the last step was called with
    action_out,               \* the same buffers after that step
    decoded,                  \* agents whose _set_action completed in it
    steps                     \* step calls that returned since the last reset

vars == <<discrete_action_space, discrete_action_input, force_discrete_action,
          time_limit, agents, action_space, ctor_err, time, num_episodes,
          u, c, u_alias, p_pos, p_vel, l_pos, translate_observation,
          translate_state, ret, action_in, action_out, decoded, steps>>

config_vars == <<discrete_action_space, discrete_action_input,
                 force_discrete_action, time_limit, agents, action_space,
                 ctor_err>>
world_vars == <<p_pos, p_vel, l_pos>>
control_vars == <<u, c, u_alias, action_in, action_out, decoded>>

----------------------------------------------------------------------------
(* Bounds of the model *)

MaxTimeLimit == 2     \* time_limit ranges over 1..MaxTimeLimit
MaxEpisodes == 1      \* cap on num_episodes
Overlong == 1         \* buffers are up to this much longer than the widest space
MaxAgents == 2        \* agents of the worlds whose observations are assembled
MaxLandmarks == 2     \* landmarks of those worlds
MaxSnap == 1          \* world layouts 0..MaxSnap
MaxSlot == 3          \* translation slots are 0, 2, .., 2*MaxSlot wide
DimC == 2             \* world.dim_c

(* Program constants *)

DimP == 2                 \* world.dim_p: the 2-D world of obs_structure [0, 4]
DefaultSensitivity == 5   \* sensitivity = 5.0

----------------------------------------------------------------------------
(* Python / numpy helpers *)

None == << >>
Some(x) == <<x>>

Min(a, b) == IF a < b THEN a ELSE b
Max(a, b) == IF a > b THEN a ELSE b

Zeros(n) == [j \in 1..n |-> 0]                  \* np.zeros(n)
PyNum(n) == [k |-> "num", v |-> <<n>>]
IArr(s) == [k |-> "iarr", v |-> s]
FArr(s) == [k |-> "farr", v |-> s]

\* seq[a:b] for 0 <= a, b: a Python slice, clipped to the sequence
PySlice(s, a, b) ==
    LET lo == Min(a, Len(s))
        hi == Min(b, Len(s))
    IN IF hi <= lo THEN << >> ELSE SubSeq(s, lo + 1, hi)

RECURSIVE Concatenate(_)
\* np.concatenate(list, axis=0)
Concatenate(list) ==
    IF list = << >> THEN << >> ELSE Head(list) \o Concatenate(Tail(list))

RECURSIVE CumSum(_)
\* np.cumsum(seq)
CumSum(s) ==
    IF Len(s) = 0 THEN << >>
    ELSE LET front == CumSum(SubSeq(s, 1, Len(s) - 1))
         IN Append(front, (IF Len(front) = 0 THEN 0 ELSE front[Len(front)]) + s[Len(s)])

\* np.argmax(a): the first index (1-based here) holding the maximum
ArgMax(a) ==
    CHOOSE i \in 1..Len(a) :
        /\ \A j \in 1..Len(a) : a[j] <= a[i]
        /\ \A j \in 1..(i - 1) : a[j] < a[i]

\* dest[start : start+size] = src on a 1-D numpy array; numpy clips the slice
\* to the array and raises ValueError unless src has the slice's length or
\* can be broadcast to it (a single element).
AssignSlice(dest, start, size, src) ==
    LET lo == Min(start, Len(dest))
        hi == Max(lo, Min(start + size, Len(dest)))
        n == hi - lo
    IN IF Len(src) = n
       THEN [err |-> "none",
             v |-> [j \in 1..Len(dest) |->
                      IF j > lo /\ j <= hi THEN src[j - lo] ELSE dest[j]]]
       ELSE IF Len(src) = 1
       THEN [err |-> "none",
             v |-> [j \in 1..Len(dest) |->
                      IF j > lo /\ j <= hi THEN src[1] ELSE dest[j]]]
       ELSE [err |-> "ValueError", v |-> dest]

----------------------------------------------------------------------------
(* __init__: the composite action space of one agent (lines 126-151) *)

Discrete(n) == [tag |-> "Discrete", n |-> n, low |-> << >>, high |-> << >>]
Box(n) == [tag |-> "Box", n |-> n, low |-> << >>, high |-> << >>]
TupleSpace(parts) ==
    [tag |-> "Tuple", n |-> Len(parts), low |-> << >>, high |-> << >>]
\* MultiDiscrete([[0, n1 - 1], [0, n2 - 1], ...])
MultiDiscrete(parts) ==
    [tag |-> "MultiDiscrete", n |-> Len(parts),
     low |-> [j \in 1..Len(parts) |-> 0],
     high |-> [j \in 1..Len(parts) |-> parts[j].n - 1]]
NoSpace == [tag |-> "none", n |-> 0, low |-> << >>, high |-> << >>]

\* total_action_space of the agent (lines 127-141)
TotalActionSpace(agent, das) ==
    LET u_action_space == IF das THEN Discrete(DimP * 2 + 1) ELSE Box(DimP)
        c_action_space == IF das THEN Discrete(DimC) ELSE Box(DimC)
    IN (IF agent.movable THEN <<u_action_space>> ELSE << >>)
       \o (IF ~agent.silent THEN <<c_action_space>> ELSE << >>)

\* lines 143-151; total_action_space[0] of an empty list raises IndexError
ComposeSpace(agent, das) ==
    LET total == TotalActionSpace(agent, das)
    IN IF Len(total) > 1
       THEN [err |-> "none",
             space |-> IF \A j \in 1..Len(total) : total[j].tag = "Discrete"
                       THEN MultiDiscrete(total)
                       ELSE TupleSpace(total)]
       ELSE IF Len(total) = 1
       THEN [err |-> "none", space |-> total[1]]
       ELSE [err |-> "IndexError", space |-> NoSpace]

----------------------------------------------------------------------------
(* _set_action (lines 245-293).  The decode state d holds the agent's      *)
(* control as written so far (u, c), the caller's buffer (buf), the        *)
(* segment list `action` as views [off, len] into that buffer (segs),      *)
(* whether u is the buffer object itself (alias), and the exception.       *)

SegVal(d, j) == PySlice(d.buf.v, d.segs[j].off, d.segs[j].off + d.segs[j].len)

\* an in-place write through a view reaches the caller's buffer
WriteSeg(buf, seg, vals) ==
    [buf EXCEPT !.v = [j \in 1..Len(buf.v) |->
        IF j > seg.off /\ j <= seg.off + seg.len THEN vals[j - seg.off] ELSE buf.v[j]]]

Raise(d, e) == [d EXCEPT !.err = e]

RECURSIVE Slices(_, _, _)
\* act.append(action[index:(index+s)]); index += s   (lines 252-255)
Slices(size, index, n) ==
    IF size = << >> THEN << >>
    ELSE <<[off |-> Min(index, n),
            len |-> Min(index + Head(size), n) - Min(index, n)]>>
         \o Slices(Tail(size), index + Head(size), n)

\* lines 246-258
SplitAction(action, space) ==
    LET d0 == [u |-> FArr(Zeros(DimP)), c |-> FArr(Zeros(DimC)), buf |-> action,
               segs |-> << >>, alias |-> FALSE, err |-> "none"]
    IN IF space.tag = "MultiDiscrete"
       THEN IF action.k = "num"
            THEN Raise(d0, "TypeError")      \* a scalar cannot be sliced
            ELSE [d0 EXCEPT !.segs =
                    Slices([j \in 1..space.n |-> space.high[j] - space.low[j] + 1],
                           0, Len(action.v))]
       ELSE [d0 EXCEPT !.segs = <<[off |-> 0, len |-> Len(action.v)]>>]

DiscreteMoveFlipped(v) ==
    [j \in 1..DimP |-> IF v = 2 * j - 1 THEN 1 ELSE IF v = 2 * j THEN -1 ELSE 0]

\* lines 263-268: the four tests, in order, on a zero vector
DiscreteMove(v) ==
    LET z == Zeros(DimP)
        u1 == IF v = 1 THEN [z EXCEPT ![1] = -1] ELSE z
        u2 == IF v = 2 THEN [u1 EXCEPT ![1] = 1] ELSE u1
        u3 == IF v = 3 THEN [u2 EXCEPT ![2] = -1] ELSE u2
        u4 == IF v = 4 THEN [u3 EXCEPT ![2] = 1] ELSE u3
    IN u4

\* lines 262-268.  `if action[0] == 1` on an array of two or more elements
\* raises ValueError; on an empty array it is False or raises, by numpy
\* version (strict).
MoveDiscreteInput(d, strict) ==
    LET a0 == SegVal(d, 1)
    IN IF Len(a0) >= 2 \/ (Len(a0) = 0 /\ strict) THEN Raise(d, "ValueError")
       ELSE IF Len(a0) = 0 THEN d
       ELSE [d EXCEPT !.u = FArr(DiscreteMove(a0[1]))]

\* lines 270-273: snap action[0] to one-hot at its argmax, in place
Snap(d) ==
    LET a0 == SegVal(d, 1)
    IN IF d.buf.k = "num" THEN Raise(d, "TypeError")
       ELSE IF Len(a0) = 0 THEN Raise(d, "ValueError")
       ELSE [d EXCEPT !.buf = WriteSeg(d.buf, d.segs[1],
                [j \in 1..Len(a0) |-> IF j = ArgMax(a0) THEN 1 ELSE 0])]

\* lines 274-276: u[0] += a[1] - a[2]; u[1] += a[3] - a[4]
PushPull(d) ==
    LET a0 == SegVal(d, 1)
    IN IF d.buf.k = "num" THEN Raise(d, "TypeError")
       ELSE IF Len(a0) < 3 THEN Raise(d, "IndexError")
       ELSE IF Len(a0) < 5
       THEN Raise([d EXCEPT !.u.v[1] = d.u.v[1] + a0[2] - a0[3]], "IndexError")
       ELSE [d EXCEPT !.u.v = <<d.u.v[1] + a0[2] - a0[3], d.u.v[2] + a0[4] - a0[5]>>]

\* lines 277-278: agent.action.u = action[0], the buffer object itself
Direct(d) ==
    [d EXCEPT !.u = [k |-> d.buf.k, v |-> SegVal(d, 1)],
              !.alias = (d.buf.k # "num")]

\* lines 279-281
Sensitivity(agent) ==
    IF agent.accel # None THEN agent.accel[1] ELSE DefaultSensitivity

\* line 282: agent.action.u *= sensitivity, in place on an array (a float
\* factor cannot be cast into an integer array), a new value for a scalar
Scale(d, agent) ==
    LET scaled == [j \in 1..Len(d.u.v) |-> d.u.v[j] * Sensitivity(agent)]
    IN IF d.alias /\ d.u.k = "iarr" THEN Raise(d, "TypeError")
       ELSE IF d.alias
       THEN [d EXCEPT !.u.v = scaled, !.buf = WriteSeg(d.buf, d.segs[1], scaled)]
       ELSE [d EXCEPT !.u.v = scaled]

\* action = action[1:]   (lines 283 and 291), unless an exception is under way
DropSegment(d) == IF d.err # "none" THEN d ELSE [d EXCEPT !.segs = Tail(d.segs)]

\* lines 274-278, unless the snap raised
MoveFromVector(d) ==
    IF d.err # "none" THEN d
    ELSE IF discrete_action_space THEN PushPull(d)
    ELSE Direct(d)

\* lines 279-282, unless the decode of the force raised
ScaleUnlessRaised(d, agent) == IF d.err # "none" THEN d ELSE Scale(d, agent)

\* lines 260-283
Move(d, agent, strict) ==
    DropSegment(ScaleUnlessRaised(
        IF discrete_action_input THEN MoveDiscreteInput(d, strict)
        ELSE MoveFromVector(IF force_discrete_action THEN Snap(d) ELSE d),
        agent))

\* lines 286-288: c = zeros; c[action[0]] = 1.0 (an integer or an integer
\* array indexes c; a float array, or an index outside c, raises IndexError)
CommDiscreteInput(d) ==
    IF Len(d.segs) = 0 THEN Raise(d, "IndexError")
    ELSE LET a0 == SegVal(d, 1)
         IN IF d.buf.k = "farr" THEN Raise(d, "IndexError")
            ELSE IF \E j \in 1..Len(a0) : a0[j] < -DimC \/ a0[j] >= DimC
            THEN Raise(d, "IndexError")
            ELSE [d EXCEPT !.c = FArr([i \in 1..DimC |->
                     IF \E j \in 1..Len(a0) : (a0[j] % DimC) + 1 = i THEN 1 ELSE 0])]

\* lines 289-290: agent.action.c = action[0]
CommDirect(d) ==
    IF Len(d.segs) = 0 THEN Raise(d, "IndexError")
    ELSE [d EXCEPT !.c = [k |-> d.buf.k, v |-> SegVal(d, 1)]]

\* lines 284-291
Comm(d) ==
    DropSegment(IF discrete_action_input THEN CommDiscreteInput(d) ELSE CommDirect(d))

\* line 260: if agent.movable
MoveIfMovable(d, agent, strict) ==
    IF d.err # "none" \/ ~agent.movable THEN d ELSE Move(d, agent, strict)

\* line 284: if not agent.silent
CommUnlessSilent(d, agent) ==
    IF d.err # "none" \/ agent.silent THEN d ELSE Comm(d)

\* line 293: assert len(action) == 0
AssertAllUsed(d) ==
    IF d.err = "none" /\ Len(d.segs) # 0 THEN Raise(d, "AssertionError") ELSE d

\* lines 245-293
set_action(action, agent, space, strict) ==
    AssertAllUsed(CommUnlessSilent(
        MoveIfMovable(SplitAction(action, space), agent, strict), agent))

----------------------------------------------------------------------------
(* Observation and global-state assembly (lines 386-456) *)

n_agents == Len(agents)        \* len(self.world.agents)
n_landmarks == Len(l_pos)      \* len(self.world.landmarks)

VecSub(a, b) == [d \in 1..Len(a) |-> a[d] - b[d]]

\* the list `obs` of lines 391-401: own position and velocity, then self
\* minus every other agent, then every landmark minus self
ObsList(agent_id) ==
    <<p_pos[agent_id], p_vel[agent_id]>>
    \o [j \in 1..(n_agents - 1) |->
          VecSub(p_pos[agent_id], p_pos[IF j < agent_id THEN j ELSE j + 1])]
    \o [j \in 1..n_landmarks |-> VecSub(l_pos[j], p_pos[agent_id])]

ObsStructureAllAgents(n, l) == <<0, 4, 2 * n, 2 * l>>

\* obs_structure of lines 392, 398, 403
ObsStructure(n, l) == <<0, 4, 2 * (n - 1), 2 * l>>

RECURSIVE CopySegments(_, _, _, _, _)
\* the loop of lines 412-414 (and 447-449), from its i-th round on
CopySegments(map, structure, src, dst, i) ==
    IF i > Len(map) - 1 THEN [err |-> "none", v |-> dst]
    ELSE IF i + 1 > Len(structure) THEN [err |-> "IndexError", v |-> dst]
    ELSE LET size == structure[i + 1] - structure[i]
             r == AssignSlice(dst, map[i], size,
                              PySlice(src, structure[i], structure[i + 1]))
         IN IF r.err # "none" THEN r
            ELSE CopySegments(map, structure, src, r.v, i + 1)

TranslateIntoUnmapped(map, structure, src) ==
    IF Len(map) = 0 THEN [err |-> "IndexError", v |-> << >>]
    ELSE CopySegments(structure, structure, src, Zeros(map[Len(map)]), 1)

\* lines 410-416 (and 445-451): a zero buffer of map[-1] elements, filled
\* segment by segment
TranslateInto(map, structure, src) ==
    IF Len(map) = 0 THEN [err |-> "IndexError", v |-> << >>]
    ELSE CopySegments(map, structure, src, Zeros(map[Len(map)]), 1)

\* lines 389-419
get_obs_agent(agent_id, structure) ==
    LET obs == ObsList(agent_id)
        obs_structure == ObsStructure(n_agents, n_landmarks)
    IN IF structure THEN [err |-> "none", v |-> CumSum(obs_structure)]
       ELSE IF translate_observation # None
       THEN TranslateInto(translate_observation[1], CumSum(obs_structure),
                          Concatenate(obs))
       ELSE [err |-> "none", v |-> Concatenate(obs)]

\* state_structure of lines 426, 432, 436
StateStructure(n) == <<0, n * 4, n * 2>>

\* the vector `state` of lines 425-438
StateVector ==
    Concatenate([j \in 1..(2 * n_agents) |->
                   IF j % 2 = 1 THEN p_pos[(j + 1) \div 2] ELSE p_vel[j \div 2]]
                \o l_pos)

\* lines 424-453
get_state(structure) ==
    LET state_structure == StateStructure(n_agents)
    IN IF structure THEN [err |-> "none", v |-> CumSum(state_structure)]
       ELSE IF translate_state # None
       THEN TranslateInto(translate_state[1], CumSum(state_structure), StateVector)
       ELSE [err |-> "none", v |-> StateVector]

\* line 387: the observations of all agents, or the first exception
get_obs ==
    LET each == [i \in 1..n_agents |-> get_obs_agent(i, FALSE)]
        bad == {i \in 1..n_agents : each[i].err # "none"}
    IN IF bad = {} THEN [err |-> "none", v |-> [i \in 1..n_agents |-> each[i].v]]
       ELSE [err |-> each[CHOOSE i \in bad : \A j \in bad : i <= j].err, v |-> << >>]

----------------------------------------------------------------------------
(* The external world: layouts of agents and landmarks *)

Layout(k, n, l) ==
    [p_pos |-> [i \in 1..n |-> <<k + i, 2 * i + k + 1>>],
     p_vel |-> [i \in 1..n |-> <<i, k + 1>>],
     l_pos |-> [j \in 1..l |-> <<3 + j + k, 5 - j>>]]

\* world.step(): the world moves on to its next layout
WorldStep(pp) == ((pp[1][1] - 1) + 1) % (MaxSnap + 1)

----------------------------------------------------------------------------
(* Inputs *)

AgentKinds == [movable : BOOLEAN, silent : BOOLEAN, accel : {None, Some(3)}]
Mover(a) == [movable |-> TRUE, silent |-> TRUE, accel |-> a]
Talker(m) == [movable |-> m, silent |-> FALSE, accel |-> None]

\* the policy agents of the worlds whose decoder is exercised: every kind of
\* single agent, and the pairs of the cooperative, speaker-listener and
\* reference scenarios
EnvWorlds ==
    {<<a>> : a \in AgentKinds}
    \cup {<<Mover(None), Mover(None)>>, <<Talker(FALSE), Mover(None)>>,
          <<Talker(TRUE), Talker(TRUE)>>}

\* the policy agents of the worlds whose episode clock is exercised
ClockWorlds ==
    {<<Mover(None)>>, <<Talker(FALSE)>>, <<Mover(Some(3)), Mover(None)>>}

MaxBufLen == 2 * DimP + 1 + DimC + Overlong
Hot(n) == [j \in 1..n |-> IF j = 2 THEN 1 ELSE 0]
Ramp(n) == [j \in 1..n |-> 1 + (j % 2)]

Buffers ==
    {PyNum(v) : v \in 0..(2 * DimP + 1)}
    \cup {[k |-> kind, v |-> pat[n]] :
            kind \in {"iarr", "farr"}, n \in 0..MaxBufLen,
            pat \in {[m \in 0..MaxBufLen |-> Hot(m)], [m \in 0..MaxBufLen |-> Ramp(m)]}}

\* the buffer a caller following the input convention of lines 113-114
\* passes for a space
DefaultAction(space) ==
    IF discrete_action_input
    THEN IF space.tag = "MultiDiscrete" THEN IArr([j \in 1..space.n |-> 1])
         ELSE PyNum(1)
    ELSE IF space.tag = "Discrete" THEN FArr(Hot(space.n))
    ELSE IF space.tag = "MultiDiscrete"
    THEN FArr(Concatenate([j \in 1..space.n |-> Hot(space.high[j] + 1)]))
    ELSE IF space.tag = "Box" THEN FArr(Ramp(space.n))
    ELSE FArr(Ramp(DimP + DimC))

\* action_n: the first agent's buffer is arbitrary, the others' are the default
ActionLists ==
    {[j \in 1..n_agents |-> IF j = 1 THEN b ELSE DefaultAction(action_space[j])] :
        b \in Buffers}

\* numpy builds differ on the truth value of an empty array
StrictChoices(action_n) ==
    IF \E i \in 1..Len(action_n) : Len(action_n[i].v) = 0 THEN BOOLEAN ELSE {FALSE}

SlotWidths == {2 * j : j \in 0..MaxSlot}
\* translation maps of m segments: a start, then one slot after another
RECURSIVE Maps(_)
Maps(m) ==
    IF m = 0 THEN {<<0>>, <<2>>}
    ELSE {Append(t, t[Len(t)] + w) : t \in Maps(m - 1), w \in SlotWidths}

----------------------------------------------------------------------------
(* Construction *)

\* the record of a call: its name, its arguments agent_id and structure
\* (0 and FALSE where it has none), the exception it raised, the termination
\* flag and the vector it returned
Returned(op, err, done, v) ==
    [op |-> op, agent_id |-> 0, structure |-> FALSE, err |-> err, done |-> done,
     v |-> v]

\* __init__ (lines 97-168) on a world of the given agents and layout
Construct(das, dai, force, limit, ags, k, l) ==
    LET spaces == [i \in 1..Len(ags) |-> ComposeSpace(ags[i], das)]
        bad == \E i \in 1..Len(ags) : spaces[i].err # "none"
        w == Layout(k, Len(ags), l)
    IN /\ discrete_action_space = das
       /\ discrete_action_input = dai
       /\ force_discrete_action = force
       /\ time_limit = limit
       /\ agents = ags
       /\ ctor_err = IF bad THEN "IndexError" ELSE "none"
       /\ action_space = [i \in 1..Len(ags) |-> spaces[i].space]
       /\ time = 0
       /\ num_episodes = 0
       /\ u = [i \in 1..Len(ags) |-> FArr(Zeros(DimP))]
       /\ c = [i \in 1..Len(ags) |-> FArr(Zeros(DimC))]
       /\ u_alias = [i \in 1..Len(ags) |-> FALSE]
       /\ p_pos = w.p_pos
       /\ p_vel = w.p_vel
       /\ l_pos = w.l_pos
       /\ translate_observation = None
       /\ translate_state = None
       /\ ret = Returned("init", IF bad THEN "IndexError" ELSE "none", 0, << >>)
       /\ action_in = << >>
       /\ action_out = << >>
       /\ decoded = 0
       /\ steps = 0

\* environments whose decoder is exercised: every mode, every world of
\* EnvWorlds
InitEnv ==
    \E das \in BOOLEAN, dai \in BOOLEAN, force \in BOOLEAN, ags \in EnvWorlds :
        Construct(das, dai, force, MaxTimeLimit, ags, 0, 1)

\* environments whose episode clock is exercised: every mode, every time
\* limit, the worlds of ClockWorlds
InitClock ==
    \E das \in BOOLEAN, dai \in BOOLEAN, force \in BOOLEAN,
       limit \in 1..MaxTimeLimit, ags \in ClockWorlds :
        Construct(das, dai, force, limit, ags, 0, 1)

\* environments whose observations are assembled: the constructor's default
\* mode, every count of agents and landmarks, every layout
InitObs ==
    \E n \in 1..MaxAgents, l \in 0..MaxLandmarks, k \in 0..MaxSnap :
        Construct(TRUE, TRUE, FALSE, MaxTimeLimit, [i \in 1..n |-> Mover(None)], k, l)

----------------------------------------------------------------------------
(* step and reset *)

TerminationFlagAtLeast(t, limit) == IF t >= limit THEN 1 ELSE 0

\* lines 197-200
TerminationFlag(t, limit) == IF t = limit THEN 1 ELSE 0

\* agent i's control, buffer and exception after its _set_action
AfterSetAction(st, i, d) ==
    [st EXCEPT !.u[i] = d.u, !.c[i] = d.c, !.alias[i] = d.alias,
               !.action_n[i] = d.buf, !.err = d.err,
               !.decoded = IF d.err = "none" THEN i ELSE i - 1]

RECURSIVE SetActions(_, _, _)
\* the loop of lines 177-178 from agent i on; an exception ends it
SetActions(i, st, strict) ==
    IF i > n_agents \/ st.err # "none" THEN st
    ELSE SetActions(i + 1,
            AfterSetAction(st, i,
                set_action(st.action_n[i], agents[i], action_space[i], strict)),
            strict)

\* lines 179-202 after the decode st of action_n: the world advances, the
\* clock ticks and the flag is returned, unless a decode raised
StepAfter(action_n, st, layout) ==
    /\ action_in' = action_n
    /\ action_out' = st.action_n
    /\ u' = st.u
    /\ c' = st.c
    /\ u_alias' = st.alias
    /\ decoded' = st.decoded
    /\ IF st.err = "none"
       THEN /\ p_pos' = layout.p_pos
            /\ p_vel' = layout.p_vel
            /\ l_pos' = layout.l_pos
            /\ time' = time + 1
            /\ steps' = steps + 1
            /\ ret' = Returned("step", "none",
                               TerminationFlag(time + 1, time_limit), << >>)
       ELSE /\ UNCHANGED <<world_vars, time, steps>>
            /\ ret' = Returned("step", st.err, 0, << >>)

\* lines 170-202.  Rewards, infos and per-agent observations come from the
\* scenario callbacks and are not part of the state kept here.
step ==
    /\ ctor_err = "none"
    /\ time <= time_limit
    /\ \E action_n \in ActionLists :
       \E strict \in StrictChoices(action_n) :
        StepAfter(action_n,
                  SetActions(1, [u |-> u, c |-> c, alias |-> u_alias,
                                 action_n |-> action_n, err |-> "none",
                                 decoded |-> 0], strict),
                  Layout(WorldStep(p_pos), n_agents, n_landmarks))
    /\ UNCHANGED <<config_vars, num_episodes, translate_observation, translate_state>>

\* lines 204-217; reset_callback puts the world back in its first layout
reset ==
    /\ ctor_err = "none"
    /\ UNCHANGED <<config_vars, control_vars, translate_observation, translate_state>>
    /\ \E evaluate \in BOOLEAN :
        LET w == Layout(0, n_agents, n_landmarks)
        IN /\ evaluate \/ num_episodes < MaxEpisodes
           /\ p_pos' = w.p_pos
           /\ p_vel' = w.p_vel
           /\ l_pos' = w.l_pos
           /\ time' = 0
           /\ steps' = 0
           /\ num_episodes' = IF evaluate THEN num_episodes ELSE num_episodes + 1
           /\ ret' = LET r == get_obs' IN Returned("reset", r.err, 0, r.v)

----------------------------------------------------------------------------
(* The calls of the observation interface *)

\* self.translate_observation (line 167) is set by the caller
SetTranslateObservation ==
    /\ ctor_err = "none"
    /\ \E t \in {None} \cup {Some(m) : m \in Maps(3)} : translate_observation' = t
    /\ ret' = Returned("set_translate_observation", "none", 0, << >>)
    /\ UNCHANGED <<config_vars, world_vars, control_vars, time, num_episodes,
                   steps, translate_state>>

\* self.translate_state (line 168) is set by the caller
SetTranslateState ==
    /\ ctor_err = "none"
    /\ \E t \in {None} \cup {Some(m) : m \in Maps(2)} : translate_state' = t
    /\ ret' = Returned("set_translate_state", "none", 0, << >>)
    /\ UNCHANGED <<config_vars, world_vars, control_vars, time, num_episodes,
                   steps, translate_observation>>

ObsFrame == <<config_vars, world_vars, control_vars, time, num_episodes, steps,
              translate_observation, translate_state>>

GetObsAgent ==
    /\ ctor_err = "none"
    /\ \E agent_id \in 1..n_agents, structure \in BOOLEAN :
        LET r == get_obs_agent(agent_id, structure)
        IN ret' = [Returned("get_obs_agent", r.err, 0, r.v)
                      EXCEPT !.agent_id = agent_id, !.structure = structure]
    /\ UNCHANGED ObsFrame

GetState ==
    /\ ctor_err = "none"
    /\ \E structure \in BOOLEAN :
        LET r == get_state(structure)
        IN ret' = [Returned("get_state", r.err, 0, r.v) EXCEPT !.structure = structure]
    /\ UNCHANGED ObsFrame

\* lines 421-422
GetObsSize ==
    /\ ctor_err = "none"
    /\ LET r == get_obs_agent(1, FALSE)
       IN ret' = Returned("get_obs_size", r.err, 0, <<Len(r.v)>>)
    /\ UNCHANGED ObsFrame

\* lines 455-456
GetStateSize ==
    /\ ctor_err = "none"
    /\ LET r == get_state(FALSE)
       IN ret' = Returned("get_state_size", r.err, 0, <<Len(r.v)>>)
    /\ UNCHANGED ObsFrame

----------------------------------------------------------------------------
(* Specifications *)

NextEnv == step \/ reset
SpecEnv == InitEnv /\ [][NextEnv]_vars
SpecClock == InitClock /\ [][NextEnv]_vars

NextObs == SetTranslateObservation \/ GetObsAgent \/ GetObsSize
SpecObs == InitObs /\ [][NextObs]_vars

NextState == SetTranslateState \/ GetState \/ GetStateSize
SpecState == InitObs /\ [][NextState]_vars

----------------------------------------------------------------------------
(* Properties *)

Stepped == ret.op = "step"
\* the last step called _set_action for agent i / saw it return
Attempted(i) == Stepped /\ i <= decoded + (IF ret.err = "none" THEN 0 ELSE 1)
Completed(i) == Stepped /\ i <= decoded

\* the mapping table of the discrete movement values 0..4
MoveTable == <<<<0, 0>>, <<-1, 0>>, <<1, 0>>, <<0, -1>>, <<0, 1>>>>

\* C1: a step that returns signals 1 exactly when it is the time_limit-th
\* step to return since the last reset (or since construction) and 0
\* otherwise, and a reset puts the clock back to 0.
C1_TerminationAtLimit ==
    /\ (Stepped /\ ret.err = "none") =>
          /\ ret.done \in {0, 1}
          /\ ret.done = 1 <=> steps = time_limit
    /\ ret.op = "reset" => (time = 0 /\ steps = 0)

\* a second episode ends on its time_limit-th step, with the largest limit
C1_Witness ==
    /\ Stepped /\ ret.err = "none" /\ ret.done = 1
    /\ num_episodes >= 1
    /\ time_limit = MaxTimeLimit
    /\ steps = MaxTimeLimit

\* the width of the agent's composite space: 2*dim_p+1 or dim_p for the
\* movement sub-space, dim_c for the communication sub-space
SpaceWidth(agent) ==
    (IF agent.movable THEN (IF discrete_action_space THEN 2 * DimP + 1 ELSE DimP) ELSE 0)
    + (IF agent.silent THEN 0 ELSE DimC)

SubSpaces(agent) ==
    (IF agent.movable THEN 1 ELSE 0) + (IF agent.silent THEN 0 ELSE 1)

\* C2: _set_action never completes on an array buffer whose length differs
\* from the width of the agent's composite space (with discrete-index input
\* a buffer of one index per sub-space counts as well formed too).
C2_WrongLengthAborts ==
    \A i \in 1..n_agents :
        (Completed(i) /\ action_in[i].k # "num") =>
            \/ Len(action_in[i].v) = SpaceWidth(agents[i])
            \/ discrete_action_input /\ Len(action_in[i].v) = SubSpaces(agents[i])

\* C3: an agent that neither moves nor communicates gets an empty composite
\* space from a successful construction, and decoding an empty buffer for
\* it completes and leaves both controls all zero.
C3_InertAgentDecodes ==
    \A i \in 1..n_agents :
        (~agents[i].movable /\ agents[i].silent) =>
            /\ ctor_err = "none"
            /\ action_space[i].n = 0
            /\ (Attempted(i) /\ Len(action_in[i].v) = 0) =>
                  /\ Completed(i)
                  /\ u[i].v = Zeros(DimP)
                  /\ c[i].v = Zeros(DimC)

\* the three source segments of agent i's observation
OwnSegment(i) == p_pos[i] \o p_vel[i]
OthersSegment(i) ==
    Concatenate([j \in 1..(n_agents - 1) |->
        LET o == IF j < i THEN j ELSE j + 1
        IN <<p_pos[i][1] - p_pos[o][1], p_pos[i][2] - p_pos[o][2]>>])
LandmarkSegment(i) ==
    Concatenate([j \in 1..n_landmarks |->
        <<l_pos[j][1] - p_pos[i][1], l_pos[j][2] - p_pos[i][2]>>])
SourceSegments(i) == <<OwnSegment(i), OthersSegment(i), LandmarkSegment(i)>>

\* every slot of the map is at least as wide as its source segment
SlotsWideEnough(map, segments) ==
    /\ Len(map) = Len(segments) + 1
    /\ \A i \in 1..Len(segments) : map[i + 1] - map[i] >= Len(segments[i])

\* the vector v holds segment i at [map[i], map[i] + width_i) and zero
\* everywhere else
PlacedAndPadded(v, map, segments) ==
    /\ Len(v) = map[Len(map)]
    /\ \A i \in 1..Len(segments) : \A q \in 1..Len(segments[i]) :
          v[map[i] + q] = segments[i][q]
    /\ \A q \in 1..Len(v) :
          (\A i \in 1..Len(segments) : q <= map[i] \/ q > map[i] + Len(segments[i]))
              => v[q] = 0

ObsReturned == ret.op = "get_obs_agent" /\ ~ret.structure

\* C4: with a translation map whose slots are wide enough, get_obs_agent
\* returns a vector of the map's final entry in length, each source segment
\* unchanged at its offset and zero everywhere else.
C4_TranslationPlacesSegments ==
    (/\ ObsReturned
     /\ translate_observation # None
     /\ SlotsWideEnough(translate_observation[1], SourceSegments(ret.agent_id)))
    => /\ ret.err = "none"
       /\ PlacedAndPadded(ret.v, translate_observation[1],
                          SourceSegments(ret.agent_id))

\* widths [4, 2, 2] at offsets [0, 6, 8] of 12: [4, 6) and [10, 12) are zero
C4_Witness ==
    /\ ObsReturned /\ ret.err = "none"
    /\ n_agents = 2 /\ n_landmarks = 1
    /\ translate_observation = Some(<<0, 6, 8, 12>>)
    /\ Len(ret.v) = 12
    /\ SubSeq(ret.v, 1, 4) = OwnSegment(ret.agent_id)
    /\ SubSeq(ret.v, 5, 6) = <<0, 0>>
    /\ SubSeq(ret.v, 7, 8) = OthersSegment(ret.agent_id)
    /\ SubSeq(ret.v, 9, 10) = LandmarkSegment(ret.agent_id)
    /\ SubSeq(ret.v, 11, 12) = <<0, 0>>
    /\ \A q \in 1..4 : ret.v[q] # 0

\* C5: with a translation map in which some source segment is wider than
\* its slot, get_obs_agent fails.
C5_NarrowSlotFails ==
    (/\ ObsReturned
     /\ translate_observation # None
     /\ \E i \in 1..3 :
          translate_observation[1][i + 1] - translate_observation[1][i]
              < Len(SourceSegments(ret.agent_id)[i]))
    => ret.err # "none"

\* C6: without a translation map the boundaries of get_obs_agent(id,
\* structure=True) are non-decreasing, start at 0 and end at the length of
\* the flat vector of get_obs_agent(id), and cut it into own position and
\* velocity, other-agent deltas and landmark deltas.
C6_StructureCutsFlatVector ==
    (/\ ret.op = "get_obs_agent" /\ ret.structure
     /\ translate_observation = None)
    => LET b == ret.v
           flat == get_obs_agent(ret.agent_id, FALSE).v
       IN /\ ret.err = "none"
          /\ Len(b) = 4
          /\ b[1] = 0
          /\ \A j \in 1..3 : b[j] <= b[j + 1]
          /\ b[4] = Len(flat)
          /\ flat = OwnSegment(ret.agent_id) \o OthersSegment(ret.agent_id)
                        \o LandmarkSegment(ret.agent_id)
          /\ \A j \in 1..3 :
                SubSeq(flat, b[j] + 1, b[j + 1]) = SourceSegments(ret.agent_id)[j]

C6_Witness ==
    /\ ret.op = "get_obs_agent" /\ ret.structure /\ ret.err = "none"
    /\ translate_observation = None
    /\ n_agents = 2 /\ n_landmarks = 2
    /\ ret.agent_id = 2
    /\ ret.v = <<0, 4, 6, 10>>

\* C7: the landmark segment of the global-state structure descriptor is
\* 2 * n_landmarks wide, so its last boundary is the length of the
\* untranslated state vector.
C7_StateStructureCoversState ==
    (ret.op = "get_state" /\ ret.structure) =>
        /\ ret.err = "none"
        /\ ret.v[3] - ret.v[2] = 2 * n_landmarks
        /\ ret.v[3] = 4 * n_agents + 2 * n_landmarks

\* C8: with discrete-index input, a movable agent whose movement value is v
\* in 0..4 gets the force s * d(v) of the mapping table, s its accel if set
\* and 5 otherwise, whatever force the previous step left.
C8_DiscreteMoveTable ==
    \A i \in 1..n_agents :
        (/\ Attempted(i)
         /\ discrete_action_input
         /\ agents[i].movable
         /\ Len(action_in[i].v) = 1
         /\ action_in[i].v[1] \in 0..4
         /\ ~(action_space[i].tag = "MultiDiscrete" /\ action_in[i].k = "num"))
        => LET s == IF agents[i].accel = None THEN 5 ELSE agents[i].accel[1]
               d == MoveTable[action_in[i].v[1] + 1]
           IN /\ u[i].v = <<s * d[1], s * d[2]>>
              /\ ~u_alias[i]

\* value 2 with accel 3 gives [3, 0], on the second step of an episode
C8_Witness ==
    /\ Completed(1)
    /\ discrete_action_input
    /\ agents[1] = Mover(Some(3))
    /\ action_in[1] = PyNum(2)
    /\ u[1].v = <<3, 0>>
    /\ time = 2

\* C9: in the default mode a movable, communicating agent's buffer of the
\* composite width 2*dim_p+1+dim_c decodes without error into a force of the
\* mapping table and a one-hot communication signal.
C9_MultiDiscreteDecodes ==
    \A i \in 1..n_agents :
        (/\ Attempted(i)
         /\ discrete_action_space /\ discrete_action_input
         /\ agents[i].movable /\ ~agents[i].silent
         /\ action_in[i].k # "num"
         /\ Len(action_in[i].v) = 2 * DimP + 1 + DimC)
        => /\ Completed(i)
           /\ \E v \in 0..4 :
                u[i].v = [j \in 1..DimP |-> Sensitivity(agents[i]) * MoveTable[v + 1][j]]
           /\ \E h \in 1..DimC : c[i].v = [j \in 1..DimC |-> IF j = h THEN 1 ELSE 0]

\* C10: a step that returns leaves every buffer of action_n as it was, and
\* no agent's force is the caller's buffer.
C10_BuffersUntouched ==
    (Stepped /\ ret.err = "none") =>
        \A i \in 1..n_agents : action_out[i] = action_in[i] /\ ~u_alias[i]

=============================================================================
